---- MODULE Spec2Model ----
(***************************************************************************)
(* The file registry of the upload service (src/core.go): the in-memory    *)
(* table fm.files guarded by fm.mutex (a sync.RWMutex), the uploaded files *)
(* on disk, the JSON metadata file, the HTTP handlers that read and write  *)
(* them, the cleanup goroutine and the periodic save goroutine.            *)
(*                                                                         *)
(* A step of the model is one critical section of a handler (Lock ..       *)
(* Unlock around map reads and writes), one file-system call, or one       *)
(* unlocked read of a record field.  Handlers run on request goroutines;   *)
(* a goroutine runs one handler at a time.                                 *)
(***************************************************************************)
EXTENDS Integers, Sequences, FiniteSets, TLC

\* ---------------------------------------------------------------- bounds
MaxTime == 2        \* the clock runs 0 .. MaxTime
MaxUploads == 1     \* uploads (generated ids) per run
MaxBulk == 2        \* longest file_ids list of a bulk-delete request
MaxCount == 1       \* downloads of an unlimited record before requests stop
MaxBoots == 1       \* crashes followed by a restart
MaxRecords == 2     \* records of a snapshot loaded at start

\* ------------------------------------------------------------ input sets
Requests == {"r1", "r2"}          \* request goroutines
Sweeper == "sweeper"              \* go fm.cleanupRoutine()
Saver == "saver"                  \* go fm.saveMetadataPeriodically()
Threads == Requests \cup {Sweeper, Saver}
NoThread == "nobody"

\* File ids in order of generation.  generateID draws 16 random bytes; two
\* draws are taken to differ, so the k-th upload gets the id k.
IDs == 1 .. MaxUploads

\* Strings are sequences of bytes.  0xFF never occurs in valid UTF-8.
PwA == <<97>>
PwBad == <<97, 255>>
Passwords == {<<>>, PwA, PwBad}   \* form value "password" of uploads
Supplied == {<<>>, PwA}           \* query parameter "password" of downloads
TTLs == {1}                       \* form value "ttl", in clock ticks
Limits == {0, 1}                  \* form value "max_downloads"

\* ----------------------------------------------------------------- state
VARIABLES
    now,        \* time.Now()
    files,      \* fm.files: the ids (keys) of the map
    heap,       \* the FileInfo objects the map's pointers refer to, by id
    disk,       \* paths of the files in the upload directory
    metaFile,   \* the metadata file: [st |-> absent | partial | ok, recs]
    writer,     \* fm.mutex: the goroutine holding Lock, or NoThread
    readers,    \* fm.mutex: the goroutines holding RLock
    pc,         \* each goroutine's position
    op,         \* the handler a goroutine runs (or ran last)
    rid,        \* its fileID (0: none)
    resp,       \* the response it has written ("none": not yet)
    todo,       \* ids still to visit: cleanup's range, bulk-delete's list
    cnt,        \* cleanup's cleaned, bulk-delete's deleted
    seenAt,     \* cleanup's now := time.Now()
    pre,        \* the request: what held of the record when it started
                \* (history), bulkDelete's request.FileIDs, search's q and tag
    nextID,     \* the next id generateID returns
    lastSaved,  \* history: the registry as of the last completed save
    boots,      \* history: number of restarts
    tick0,      \* history: the registry as cleanup found it, during a tick
    bulk0,      \* history: the registry as bulkDelete found it, during its loop
    config      \* fm.config, as loadConfig returned it

vars == <<now, files, heap, disk, metaFile, writer, readers, pc, op, rid, resp,
          todo, cnt, seenAt, pre, nextID, lastSaved, boots, tick0,
          bulk0, config>>

shared == <<files, heap, disk, metaFile>>

locals == <<op, rid, resp, todo, cnt, pre>>
\* The history variables and the configuration, which no handler changes.
history == <<lastSaved, boots, tick0, bulk0, config>>

\* ------------------------------------------------------------- records
\* FileInfo, the fields the registry's behaviour depends on.
FileInfo(id, expires, maxDl, password) ==
    [id |-> id, expiresAt |-> expires, downloads |-> 0,
     maxDownloads |-> maxDl, password |-> password, path |-> id]

\* now.After(fileInfo.ExpiresAt)
Expired(r, t) == t > r.expiresAt

\* fileInfo.MaxDownloads > 0 && fileInfo.Downloads >= fileInfo.MaxDownloads
LimitReached(r) == r.maxDownloads > 0 /\ r.downloads >= r.maxDownloads

\* A password check that lets every request through.
PasswordNeverRejected(r, p) == FALSE

\* fileInfo.Password != "" && fileInfo.Password != password
PasswordRejected(r, p) == r.password # <<>> /\ r.password # p

\* A sweeper that looks at the expiry only.
shouldDeleteExpired(r, t) == Expired(r, t)

\* cleanup's shouldDelete
shouldDelete(r, t) == Expired(r, t) \/ LimitReached(r)

\* ------------------------------------------------------------- the lock
\* sync.RWMutex: Lock waits for the writer and all readers to leave, RLock
\* waits for the writer.  The mutex does not know its holder: a goroutine
\* that asks for RLock while it holds Lock itself waits like any other.
CanLock == writer = NoThread /\ readers = {}
CanRLock == writer = NoThread

\* ------------------------------------------------------------ persistence
Replacement == <<239, 191, 189>>        \* U+FFFD in UTF-8

\* encoding/json on a string: valid UTF-8 is kept, every other byte is
\* replaced by U+FFFD.  Over the alphabet ASCII, 0xFF and U+FFFD.
RECURSIVE jsonString(_)
jsonString(s) ==
    IF s = <<>> THEN <<>>
    ELSE IF Head(s) < 128 THEN <<Head(s)>> \o jsonString(Tail(s))
    ELSE IF Len(s) >= 3 /\ SubSeq(s, 1, 3) = Replacement
         THEN Replacement \o jsonString(SubSeq(s, 4, Len(s)))
    ELSE Replacement \o jsonString(Tail(s))

\* json.Marshal of a *FileInfo: `json:"password,omitempty"` leaves an empty
\* password out; numbers and times (RFC 3339 with nanoseconds) are exact.
MarshalInfo(r) ==
    LET base == [id |-> r.id, expires_at |-> r.expiresAt,
                 downloads |-> r.downloads, max_downloads |-> r.maxDownloads,
                 path |-> r.path]
    IN  IF r.password = <<>> THEN base
        ELSE [id |-> r.id, expires_at |-> r.expiresAt,
              downloads |-> r.downloads, max_downloads |-> r.maxDownloads,
              path |-> r.path, password |-> jsonString(r.password)]

\* json.Unmarshal into a FileInfo: an absent key leaves the zero value.
UnmarshalInfo(j) ==
    [id |-> j.id, expiresAt |-> j.expires_at, downloads |-> j.downloads,
     maxDownloads |-> j.max_downloads,
     password |-> IF "password" \in DOMAIN j THEN j.password ELSE <<>>,
     path |-> j.path]

\* json.MarshalIndent(fm.files, "", "  ")
Marshal(fs, hp) == [id \in fs |-> MarshalInfo(hp[id])]

NoFile == [st |-> "absent", recs |-> <<>>]
Truncated == [st |-> "partial", recs |-> <<>>]
Written(data) == [st |-> "ok", recs |-> data]

\* A load that keeps every entry of the file, os.Stat not asked.
validFilesUnchecked(meta, dsk) ==
    IF meta.st # "ok" THEN {} ELSE DOMAIN meta.recs

\* loadMetadata: no file or an undecodable file leaves the registry empty;
\* otherwise the entries whose Path passes os.Stat.
validFiles(meta, dsk) ==
    IF meta.st # "ok" THEN {}
    ELSE {id \in DOMAIN meta.recs : meta.recs[id].path \in dsk}

loadMetadata(meta, dsk) ==
    [id \in validFiles(meta, dsk) |-> UnmarshalInfo(meta.recs[id])]

\* What a goroutine runs when it runs no handler.
HomeOp(t) == IF t = Saver THEN "periodic"
             ELSE IF t = Sweeper THEN "cleanup" ELSE "none"

\* loadConfig when there is no config.json: max_downloads 0, unlimited.
DefaultConfig == [maxDownloads |-> 0]

\* ------------------------------------------------------------------ init
\* NewFileManager on a fresh directory: loadMetadata finds no file.
Init ==
    /\ now = 0
    /\ files = {}
    /\ heap = <<>>
    /\ disk = {}
    /\ metaFile = NoFile
    /\ writer = NoThread
    /\ readers = {}
    /\ pc = [t \in Threads |-> IF t = Saver THEN "save" ELSE "idle"]
    /\ op = [t \in Threads |-> HomeOp(t)]
    /\ rid = [t \in Threads |-> 0]
    /\ resp = [t \in Threads |-> "none"]
    /\ todo = [t \in Threads |-> IF t = Sweeper THEN {} ELSE <<>>]
    /\ cnt = [t \in Threads |-> 0]
    /\ seenAt = 0
    /\ pre = [t \in Threads |-> {}]
    /\ nextID = 1
    /\ lastSaved = <<>>
    /\ boots = 0
    /\ config = DefaultConfig
    /\ tick0 = <<>>
    /\ bulk0 = <<>>

\* What held when a request for fileID with password p looked it up: the
\* record was in the registry, was past its expiry, had used up its
\* downloads, had the password p.
Facts(id, p) ==
    IF id \notin files THEN {}
    ELSE {"present"}
         \cup (IF now > heap[id].expiresAt THEN {"expired"} ELSE {})
         \cup (IF heap[id].maxDownloads > 0
                   /\ heap[id].downloads >= heap[id].maxDownloads
                THEN {"limit"} ELSE {})
         \cup (IF heap[id].password = p THEN {"match"} ELSE {})

\* ------------------------------------------------------- goroutine steps
\* The goroutine's locals after the step.
Local(t, l, o, id, r, f, td, c) ==
    /\ pc' = [pc EXCEPT ![t] = l]
    /\ op' = [op EXCEPT ![t] = o]
    /\ rid' = [rid EXCEPT ![t] = id]
    /\ resp' = [resp EXCEPT ![t] = r]
    /\ pre' = [pre EXCEPT ![t] = f]
    /\ todo' = [todo EXCEPT ![t] = td]
    /\ cnt' = [cnt EXCEPT ![t] = c]

\* A request goroutine takes a request and reaches label l of its handler.
Begin(t, l, o, id, p) == Local(t, l, o, id, "none", Facts(id, p), <<>>, 0)

Goto(t, l) ==
    /\ pc' = [pc EXCEPT ![t] = l]
    /\ UNCHANGED <<op, rid, resp, pre, todo, cnt>>

\* The handler writes its response r and is done.  The response of
\* bulkDelete has, with r, "deleted": cnt[t] and "total": Len(pre[t]).
Answer(t, r) ==
    /\ pc' = [pc EXCEPT ![t] = "done"]
    /\ resp' = [resp EXCEPT ![t] = r]
    /\ todo' = [todo EXCEPT ![t] = <<>>]
    /\ cnt' = [cnt EXCEPT ![t] = IF op[t] = "bulk" THEN cnt[t] ELSE 0]
    /\ UNCHANGED <<op, rid, pre>>

\* A request that is answered by its first step.
Serve(t, o, id, p, r) == Local(t, "done", o, id, r, Facts(id, p), <<>>, 0)

\* The handler returns: the goroutine is free for the next request.
Return(t) ==
    /\ pc[t] = "done"
    /\ ~(op[t] = "download" /\ resp[t] \in {"Served", "ServeFailed"})
    /\ Local(t, "idle", "none", 0, "none", {}, <<>>, 0)
    /\ UNCHANGED <<now, shared, writer, readers, seenAt, nextID, history>>

\* ------------------------------------------------------------------ time
Tick ==
    /\ now < MaxTime
    /\ now' = now + 1
    /\ UNCHANGED <<shared, writer, readers, pc, locals, seenAt, nextID,
                   history>>

\* -------------------------------------------------------------- save
\* saveMetadata, first half: RLock, json.MarshalIndent, and os.WriteFile
\* opening the metadata file with O_TRUNC.  The registry cannot change
\* while the read lock is held, so the bytes written are those of the
\* registry at any moment of the hold.
SaveBegin(t) ==
    /\ pc[t] = "save"
    /\ CanRLock
    /\ readers' = readers \cup {t}
    /\ metaFile' = Truncated
    /\ Goto(t, "saving")
    /\ UNCHANGED <<now, files, heap, disk, writer, seenAt, nextID, history>>

\* The response a handler writes after its save.
AfterSave(o) ==
    CASE o = "upload" -> "Uploaded"
      [] o = "delete" -> "Deleted"
      [] o = "bulk" -> "BulkDone"
      [] o = "download" -> "Expired"

\* saveMetadata, second half: the write completes, the deferred RUnlock
\* runs, and the caller goes on: the ticker loop saves again, cleanup
\* returns (its deferred Unlock runs), the goroutine started after a
\* download ends, a handler answers.
SaveEnd(t) ==
    /\ pc[t] = "saving"
    /\ metaFile' = Written(Marshal(files, heap))
    /\ lastSaved' = [id \in files |-> heap[id]]
    /\ readers' = readers \ {t}
    /\ writer' = IF op[t] = "cleanup" THEN NoThread ELSE writer
    /\ IF op[t] = "periodic" THEN Goto(t, "save")
       ELSE IF op[t] = "cleanup"
       THEN Local(t, "idle", "cleanup", 0, "none", {}, {}, 0)
       ELSE IF op[t] = "async"
       THEN Local(t, "idle", "none", 0, "none", {}, <<>>, 0)
       ELSE Answer(t, AfterSave(op[t]))
    /\ UNCHANGED <<now, files, heap, disk, seenAt, nextID, boots, config, tick0,
                   bulk0>>

\* ------------------------------------------------------------- upload
\* A form value or query parameter as strconv.Atoi sees it: absent or not
\* a number, or the number n.
NoValue == [err |-> TRUE, n |-> 0]
Value(n) == [err |-> FALSE, n |-> n]

\* uploadFile inserting the record although the bytes were never placed.
UploadWriteNoBytes(t, ttl, maxDl, p) ==
    /\ pc[t] = "idle"
    /\ nextID <= MaxUploads
    /\ Local(t, "u_put", "upload", nextID, "none", {},
             <<FileInfo(nextID, now + ttl, maxDl, p)>>, 0)
    /\ nextID' = nextID + 1
    /\ UNCHANGED <<now, shared, writer, readers, seenAt, history>>

\* uploadFile up to io.Copy(dst, tempFile), generateID having returned id:
\* the FileInfo is built, held by the handler, and the bytes are placed at
\* fileInfo.Path (os.Create truncates a file that is there already).
\* pre[t] holds what of the request's form is kept for reference.
UploadFrom(t, id, ttl, maxDl, p, form) ==
    /\ pc[t] = "idle"
    /\ nextID <= MaxUploads
    /\ Local(t, "u_put", "upload", id, "none", form,
             <<FileInfo(id, now + ttl, maxDl, p)>>, 0)
    /\ disk' = disk \cup {id}
    /\ nextID' = nextID + 1
    /\ UNCHANGED <<now, files, heap, metaFile, writer, readers, seenAt,
                   history>>

\* The same, the form's ttl and max_downloads being the numbers ttl and
\* maxDl.
UploadWriteAs(t, id, ttl, maxDl, p) == UploadFrom(t, id, ttl, maxDl, p, {})

\* uploadFile, "Parse max downloads": var maxDownloads int, set only when
\* the form value is there and is a number.
MaxDownloads(md) == IF md.err THEN 0 ELSE md.n

\* uploadFile with the form value max_downloads as it was sent.
UploadForm(t, ttl, md, p) ==
    UploadFrom(t, nextID, ttl, MaxDownloads(md), p, [max_downloads |-> md])

\* The same when the 16 random bytes of generateID are an id that was
\* never returned before, which is what they are but for a collision.
UploadWrite(t, ttl, maxDl, p) == UploadWriteAs(t, nextID, ttl, maxDl, p)

\* fm.mutex.Lock(); fm.files[fileID] = fileInfo; fm.mutex.Unlock(): the map
\* entry is set, whether or not the key was there.
UploadPut(t) ==
    /\ pc[t] = "u_put"
    /\ CanLock
    /\ files' = files \cup {rid[t]}
    /\ heap' = (rid[t] :> Head(todo[t])) @@ heap
    /\ Local(t, "save", "upload", rid[t], "none", {}, <<>>, 0)
    /\ UNCHANGED <<now, disk, metaFile, writer, readers, seenAt, nextID,
                   history>>

\* ----------------------------------------------------------- download
\* downloadFile finding a record that was removed from the registry.
DownloadLookupRemoved(t, id, p) ==
    /\ pc[t] = "idle"
    /\ CanRLock
    /\ id \in DOMAIN heap /\ heap[id].maxDownloads = 0 =>
          heap[id].downloads < MaxCount
    /\ IF id \notin DOMAIN heap THEN Serve(t, "download", id, p, "NotFound")
       ELSE Begin(t, "d_check", "download", id, p)
    /\ UNCHANGED <<now, shared, writer, readers, seenAt, nextID, history>>

\* downloadFile: the lookup under RLock and the password check.
DownloadLookup(t, id, p) ==
    /\ pc[t] = "idle"
    /\ CanRLock
    /\ id \in files /\ heap[id].maxDownloads = 0 => heap[id].downloads < MaxCount
    /\ IF id \notin files THEN Serve(t, "download", id, p, "NotFound")
       ELSE IF PasswordRejected(heap[id], p)
       THEN Serve(t, "download", id, p, "Unauthorized")
       ELSE Begin(t, "d_check", "download", id, p)
    /\ UNCHANGED <<now, shared, writer, readers, seenAt, nextID, history>>

\* downloadFile without its expiry check.
DownloadCheckNoExpiry(t) ==
    /\ pc[t] = "d_check"
    /\ IF LimitReached(heap[rid[t]]) THEN Answer(t, "LimitReached")
       ELSE Goto(t, "d_inc")
    /\ UNCHANGED <<now, shared, writer, readers, seenAt, nextID, history>>

\* downloadFile without its limit check.
DownloadCheckNoLimit(t) ==
    /\ pc[t] = "d_check"
    /\ IF Expired(heap[rid[t]], now) THEN Goto(t, "d_expire")
       ELSE Goto(t, "d_inc")
    /\ UNCHANGED <<now, shared, writer, readers, seenAt, nextID, history>>

\* The expiry check and the limit check, which read time.Now() and
\* fileInfo.Downloads with no lock held.
DownloadCheck(t) ==
    /\ pc[t] = "d_check"
    /\ IF Expired(heap[rid[t]], now) THEN Goto(t, "d_expire")
       ELSE IF LimitReached(heap[rid[t]]) THEN Answer(t, "LimitReached")
       ELSE Goto(t, "d_inc")
    /\ UNCHANGED <<now, shared, writer, readers, seenAt, nextID, history>>

\* fm.mutex.Lock(); delete(fm.files, fileID); fm.mutex.Unlock()
DownloadExpire(t) ==
    /\ pc[t] = "d_expire"
    /\ CanLock
    /\ files' = files \ {rid[t]}
    /\ Goto(t, "remove")
    /\ UNCHANGED <<now, heap, disk, metaFile, writer, readers, seenAt,
                   nextID, history>>

\* A download that also puts the expiry of its record off.
DownloadIncrementExtends(t) ==
    /\ pc[t] = "d_inc"
    /\ CanLock
    /\ heap' = [heap EXCEPT ![rid[t]].downloads = @ + 1,
                            ![rid[t]].expiresAt = @ + 1]
    /\ Goto(t, "d_serve")
    /\ UNCHANGED <<now, files, disk, metaFile, writer, readers, seenAt,
                   nextID, history>>

\* A download counted twice, when access is granted and when it is served.
DownloadIncrementTwice(t) ==
    /\ pc[t] = "d_inc"
    /\ CanLock
    /\ heap' = [heap EXCEPT ![rid[t]].downloads = @ + 2]
    /\ Goto(t, "d_serve")
    /\ UNCHANGED <<now, files, disk, metaFile, writer, readers, seenAt,
                   nextID, history>>

\* fm.mutex.Lock(); fileInfo.Downloads++; fm.mutex.Unlock()
DownloadIncrement(t) ==
    /\ pc[t] = "d_inc"
    /\ CanLock
    /\ heap' = [heap EXCEPT ![rid[t]].downloads = @ + 1]
    /\ Goto(t, "d_serve")
    /\ UNCHANGED <<now, files, disk, metaFile, writer, readers, seenAt,
                   nextID, history>>

\* http.ServeFile, which answers 404 itself when the file is gone.
DownloadServe(t) ==
    /\ pc[t] = "d_serve"
    /\ Answer(t, IF heap[rid[t]].path \in disk THEN "Served" ELSE "ServeFailed")
    /\ UNCHANGED <<now, shared, writer, readers, seenAt, nextID, history>>

\* The handler returns after go fm.saveMetadata(): the goroutine goes on
\* as that save.
DownloadReturn(t) ==
    /\ pc[t] = "done"
    /\ op[t] = "download" /\ resp[t] \in {"Served", "ServeFailed"}
    /\ Local(t, "save", "async", 0, "none", {}, <<>>, 0)
    /\ UNCHANGED <<now, shared, writer, readers, seenAt, nextID, history>>

\* os.Remove(fileInfo.Path) of deleteFile and of the download's expiry path.
RemoveFile(t) ==
    /\ pc[t] = "remove"
    /\ disk' = disk \ {heap[rid[t]].path}
    /\ Goto(t, "save")
    /\ UNCHANGED <<now, files, heap, metaFile, writer, readers, seenAt,
                   nextID, history>>

\* --------------------------------------------------------------- info
\* fileInfo answering 404 for a record that is past its expiry.
InfoChecksExpiry(t, id) ==
    /\ pc[t] = "idle"
    /\ CanRLock
    /\ Serve(t, "info", id, <<>>,
             IF id \in files /\ ~Expired(heap[id], now) THEN "Info"
             ELSE "NotFound")
    /\ UNCHANGED <<now, shared, writer, readers, seenAt, nextID, history>>

\* fileInfo removing the entry of a record that is past its expiry.
InfoEvicts(t, id) ==
    /\ pc[t] = "idle"
    /\ CanLock
    /\ files' = IF id \in files /\ Expired(heap[id], now) THEN files \ {id}
                ELSE files
    /\ Serve(t, "info", id, <<>>,
             IF id \in files /\ ~Expired(heap[id], now) THEN "Info"
             ELSE "NotFound")
    /\ UNCHANGED <<now, heap, disk, metaFile, writer, readers, seenAt,
                   nextID, history>>

\* fileInfo: the lookup under RLock; the record found is encoded as it is.
Info(t, id) ==
    /\ pc[t] = "idle"
    /\ CanRLock
    /\ Serve(t, "info", id, <<>>, IF id \in files THEN "Info" ELSE "NotFound")
    /\ UNCHANGED <<now, shared, writer, readers, seenAt, nextID, history>>

\* ------------------------------------------------------------- delete
\* deleteFile treating an absent id like a present one: remove, save, and
\* answer "deleted".
DeleteEntryAlways(t, id) ==
    /\ pc[t] = "idle"
    /\ CanLock
    /\ files' = files \ {id}
    /\ Begin(t, IF id \in DOMAIN heap THEN "remove" ELSE "save", "delete", id,
             <<>>)
    /\ UNCHANGED <<now, heap, disk, metaFile, writer, readers, seenAt,
                   nextID, history>>

\* deleteFile: lookup and delete under Lock; an absent id is answered 404.
DeleteEntry(t, id) ==
    /\ pc[t] = "idle"
    /\ CanLock
    /\ IF id \in files
       THEN files' = files \ {id} /\ Begin(t, "remove", "delete", id, <<>>)
       ELSE UNCHANGED files /\ Serve(t, "delete", id, <<>>, "NotFound")
    /\ UNCHANGED <<now, heap, disk, metaFile, writer, readers, seenAt,
                   nextID, history>>

\* -------------------------------------------------------- bulk delete
\* bulkDelete: deleted := 0 and fm.mutex.Lock() before the loop over
\* request.FileIDs, which pre[t] holds until the response.
BulkBegin(t, ids) ==
    /\ pc[t] = "idle"
    /\ CanLock
    /\ writer' = t
    /\ Local(t, "b_loop", "bulk", 0, "none", ids, ids, 0)
    /\ bulk0' = [id \in files |-> heap[id]]
    /\ UNCHANGED <<now, shared, readers, seenAt, nextID, lastSaved, boots, config,
                   tick0>>

\* One turn of the loop: an id that is present has its file removed
\* (os.Remove, with the lock held); after the last id, Unlock, and a save
\* if anything was deleted.
BulkStep(t) ==
    /\ pc[t] = "b_loop"
    /\ IF todo[t] = <<>>
       THEN /\ writer' = NoThread
            /\ IF cnt[t] > 0
               THEN Local(t, "save", "bulk", 0, "none", pre[t], <<>>, cnt[t])
               ELSE Answer(t, "BulkDone")
            /\ bulk0' = <<>>
            /\ UNCHANGED disk
       ELSE IF Head(todo[t]) \in files
       THEN /\ disk' = disk \ {heap[Head(todo[t])].path}
            /\ Local(t, "b_delete", "bulk", Head(todo[t]), "none", pre[t],
                     todo[t], cnt[t])
            /\ UNCHANGED <<writer, bulk0>>
       ELSE /\ Local(t, "b_loop", "bulk", 0, "none", pre[t], Tail(todo[t]),
                     cnt[t])
            /\ UNCHANGED <<disk, writer, bulk0>>
    /\ UNCHANGED <<now, files, heap, metaFile, readers, seenAt, nextID,
                   lastSaved, boots, config, tick0>>

\* A bulk-delete that removes the entry without counting it.
BulkDeleteEntryUncounted(t) ==
    /\ pc[t] = "b_delete"
    /\ files' = files \ {rid[t]}
    /\ Local(t, "b_loop", "bulk", 0, "none", pre[t], Tail(todo[t]), cnt[t])
    /\ UNCHANGED <<now, heap, disk, metaFile, writer, readers, seenAt,
                   nextID, history>>

\* delete(fm.files, fileID); deleted++
BulkDeleteEntry(t) ==
    /\ pc[t] = "b_delete"
    /\ files' = files \ {rid[t]}
    /\ Local(t, "b_loop", "bulk", 0, "none", pre[t], Tail(todo[t]),
             cnt[t] + 1)
    /\ UNCHANGED <<now, heap, disk, metaFile, writer, readers, seenAt,
                   nextID, history>>

\* ------------------------------------------------------------ cleanup
\* cleanup: fm.mutex.Lock(), now := time.Now(), and the range over fm.files.
CleanupBegin ==
    /\ pc[Sweeper] = "idle"
    /\ CanLock
    /\ writer' = Sweeper
    /\ seenAt' = now
    /\ Local(Sweeper, "k_loop", "cleanup", 0, "none", {}, files, 0)
    /\ tick0' = [id \in files |-> heap[id]]
    /\ UNCHANGED <<now, shared, readers, nextID, lastSaved, boots, config,
                   bulk0>>

\* One turn of the range, in any order: a record that should be deleted
\* has its file removed (os.Remove, with the lock held).  After the last
\* one cleanup saves if it cleaned anything, still holding the lock, and
\* otherwise returns, which runs the deferred Unlock.
CleanupStep ==
    /\ pc[Sweeper] = "k_loop"
    /\ IF todo[Sweeper] = {}
       THEN /\ IF cnt[Sweeper] > 0
               THEN /\ Local(Sweeper, "save", "cleanup", 0, "none", {}, {}, 1)
                    /\ UNCHANGED <<writer, seenAt, tick0>>
               ELSE /\ Local(Sweeper, "idle", "cleanup", 0, "none", {}, {}, 0)
                    /\ writer' = NoThread
                    /\ seenAt' = 0
                    /\ tick0' = <<>>
            /\ UNCHANGED disk
       ELSE \E id \in todo[Sweeper] :
              IF shouldDelete(heap[id], seenAt)
              THEN /\ disk' = disk \ {heap[id].path}
                   /\ Local(Sweeper, "k_delete", "cleanup", id, "none", {},
                            todo[Sweeper], cnt[Sweeper])
                   /\ UNCHANGED <<writer, seenAt, tick0>>
              ELSE /\ Local(Sweeper, "k_loop", "cleanup", 0, "none", {},
                            todo[Sweeper] \ {id}, cnt[Sweeper])
                   /\ UNCHANGED <<disk, writer, seenAt, tick0>>
    /\ UNCHANGED <<now, files, heap, metaFile, readers, nextID, lastSaved,
                   boots, config, bulk0>>

\* delete(fm.files, id); cleaned++
CleanupDeleteEntry ==
    /\ pc[Sweeper] = "k_delete"
    /\ files' = files \ {rid[Sweeper]}
    /\ Local(Sweeper, "k_loop", "cleanup", 0, "none", {},
             todo[Sweeper] \ {rid[Sweeper]}, cnt[Sweeper] + 1)
    /\ UNCHANGED <<now, heap, disk, metaFile, writer, readers, seenAt,
                   nextID, history>>

\* ----------------------------------------------------------------- next
BulkLists == UNION {[1 .. n -> IDs] : n \in 0 .. MaxBulk}

Next ==
    \/ Tick
    \/ \E t \in Requests, ttl \in TTLs, m \in Limits, p \in Passwords :
          UploadWrite(t, ttl, m, p)
    \/ \E t \in Requests : UploadPut(t)
    \/ \E t \in Requests, id \in IDs, p \in Supplied : DownloadLookup(t, id, p)
    \/ \E t \in Requests : DownloadCheck(t)
    \/ \E t \in Requests : DownloadExpire(t)
    \/ \E t \in Requests : DownloadIncrement(t)
    \/ \E t \in Requests : DownloadServe(t)
    \/ \E t \in Requests : DownloadReturn(t)
    \/ \E t \in Requests : RemoveFile(t)
    \/ \E t \in Requests, id \in IDs : Info(t, id)
    \/ \E t \in Requests, id \in IDs : DeleteEntry(t, id)
    \/ \E t \in Requests, ids \in BulkLists : BulkBegin(t, ids)
    \/ \E t \in Requests : BulkStep(t)
    \/ \E t \in Requests : BulkDeleteEntry(t)
    \/ \E t \in Requests : Return(t)
    \/ CleanupBegin
    \/ CleanupStep
    \/ CleanupDeleteEntry
    \/ \E t \in Threads : SaveBegin(t)
    \/ \E t \in Threads : SaveEnd(t)

Spec == Init /\ [][Next]_vars

\* ------------------------------------------------------ crash and restart
\* The process is killed at any point and started again: NewFileManager
\* builds an empty registry and a fresh mutex, loadMetadata fills the
\* registry from the metadata file, and the two background goroutines
\* start.  The disk keeps the uploaded files and the metadata file.
Restart ==
    /\ boots < MaxBoots
    /\ boots' = boots + 1
    /\ files' = validFiles(metaFile, disk)
    /\ heap' = loadMetadata(metaFile, disk)
    /\ writer' = NoThread
    /\ readers' = {}
    /\ pc' = [t \in Threads |-> IF t = Saver THEN "save" ELSE "idle"]
    /\ op' = [t \in Threads |-> HomeOp(t)]
    /\ rid' = [t \in Threads |-> 0]
    /\ resp' = [t \in Threads |-> "none"]
    /\ todo' = [t \in Threads |-> IF t = Sweeper THEN {} ELSE <<>>]
    /\ cnt' = [t \in Threads |-> 0]
    /\ pre' = [t \in Threads |-> {}]
    /\ seenAt' = 0
    /\ tick0' = <<>>
    /\ bulk0' = <<>>
    /\ UNCHANGED <<now, disk, metaFile, nextID, lastSaved, config>>

NextCrash == Next \/ Restart

SpecCrash == Init /\ [][NextCrash]_vars

\* ------------------------------------------------- a loaded registry
\* NewFileManager on a directory left by an earlier run: loadMetadata finds
\* a snapshot of MaxRecords records whose files exist.  Their ids were
\* generated by the earlier run; some may be expired or at their limit.
LoadedIDs == MaxUploads + 1 .. MaxUploads + MaxRecords

LoadedHeaps ==
    {[id \in LoadedIDs |->
         [FileInfo(id, f[id].e, f[id].m, <<>>) EXCEPT !.downloads = f[id].d]] :
       f \in [LoadedIDs -> [e : 0 .. MaxTime, m : Limits, d : 0 .. MaxCount]]}

InitLoaded ==
    /\ now = 0
    /\ files = LoadedIDs
    /\ heap \in LoadedHeaps
    /\ disk = LoadedIDs
    /\ metaFile = Written(Marshal(files, heap))
    /\ writer = NoThread
    /\ readers = {}
    /\ pc = [t \in Threads |-> IF t = Saver THEN "save" ELSE "idle"]
    /\ op = [t \in Threads |-> HomeOp(t)]
    /\ rid = [t \in Threads |-> 0]
    /\ resp = [t \in Threads |-> "none"]
    /\ todo = [t \in Threads |-> IF t = Sweeper THEN {} ELSE <<>>]
    /\ cnt = [t \in Threads |-> 0]
    /\ seenAt = 0
    /\ pre = [t \in Threads |-> {}]
    /\ nextID = 1
    /\ lastSaved = [id \in files |-> heap[id]]
    /\ boots = 0
    /\ config = DefaultConfig
    /\ tick0 = <<>>
    /\ bulk0 = <<>>

\* file_ids of bulk-delete requests: loaded ids and ids never uploaded.
LoadedLists == UNION {[1 .. n -> LoadedIDs \cup IDs] : n \in 0 .. MaxBulk}

\* The sweeper and one request goroutine that deletes, on the loaded
\* registry.
NextLoaded ==
    \/ Tick
    \/ CleanupBegin
    \/ CleanupStep
    \/ CleanupDeleteEntry
    \/ \E id \in LoadedIDs : DeleteEntry("r1", id)
    \/ RemoveFile("r1")
    \/ \E ids \in LoadedLists : BulkBegin("r1", ids)
    \/ BulkStep("r1")
    \/ BulkDeleteEntry("r1")
    \/ SaveBegin("r1")
    \/ SaveEnd("r1")
    \/ Return("r1")

SpecLoaded == InitLoaded /\ [][NextLoaded]_vars

\* ------------------------------------------------------- failing calls
\* A save whose failure is reported to the client.
SaveFailRejects(t) ==
    /\ pc[t] = "saving"
    /\ readers' = readers \ {t}
    /\ writer' = IF op[t] = "cleanup" THEN NoThread ELSE writer
    /\ IF op[t] = "periodic" THEN Goto(t, "save")
       ELSE IF op[t] = "cleanup"
       THEN Local(t, "idle", "cleanup", 0, "none", {}, {}, 0)
       ELSE IF op[t] = "async"
       THEN Local(t, "idle", "none", 0, "none", {}, <<>>, 0)
       ELSE Answer(t, "ServerError")
    /\ UNCHANGED <<now, shared, seenAt, nextID, history>>

\* saveMetadata when os.WriteFile returns an error after it has opened the
\* file: the file is left as far as it was written, the deferred RUnlock
\* runs, and the caller, which looks at the error only to log it
\* (saveMetadataPeriodically) or not at all, goes on as after a save.
SaveFail(t) ==
    /\ pc[t] = "saving"
    /\ readers' = readers \ {t}
    /\ writer' = IF op[t] = "cleanup" THEN NoThread ELSE writer
    /\ IF op[t] = "periodic" THEN Goto(t, "save")
       ELSE IF op[t] = "cleanup"
       THEN Local(t, "idle", "cleanup", 0, "none", {}, {}, 0)
       ELSE IF op[t] = "async"
       THEN Local(t, "idle", "none", 0, "none", {}, <<>>, 0)
       ELSE Answer(t, AfterSave(op[t]))
    /\ UNCHANGED <<now, shared, seenAt, nextID, history>>

\* An upload whose failure goes unnoticed: the record is built and the
\* handler goes on to the insert, with or without a file at its path.
UploadFailIgnored(t, created) ==
    /\ pc[t] = "idle"
    /\ nextID <= MaxUploads
    /\ Local(t, "u_put", "upload", nextID, "none", {},
             <<FileInfo(nextID, now + 1, 0, <<>>)>>, 0)
    /\ disk' = IF created THEN disk \cup {nextID} ELSE disk
    /\ nextID' = nextID + 1
    /\ UNCHANGED <<now, files, heap, metaFile, writer, readers, seenAt,
                   history>>

\* uploadFile when a content-store step fails: os.CreateTemp, the copy to
\* the temp file, calculateChecksum, os.MkdirAll or os.Create (nothing is
\* left at fileInfo.Path), or io.Copy to the destination (the file it
\* created is left there, cut off).  The handler answers 500 and returns
\* before the insert.
UploadFail(t, created) ==
    /\ pc[t] = "idle"
    /\ nextID <= MaxUploads
    /\ Local(t, "done", "upload", 0, "ServerError", {}, <<>>, 0)
    /\ disk' = IF created THEN disk \cup {nextID} ELSE disk
    /\ nextID' = IF created THEN nextID + 1 ELSE nextID
    /\ UNCHANGED <<now, files, heap, metaFile, writer, readers, seenAt,
                   history>>

\* A delete that gives up when os.Remove fails, answering 500 without a
\* save.
RemoveFileFailAborts(t) ==
    /\ pc[t] = "remove"
    /\ Answer(t, "ServerError")
    /\ UNCHANGED <<now, shared, writer, readers, seenAt, nextID, history>>

\* os.Remove(fileInfo.Path) of deleteFile and of the download's expiry
\* path returning an error, which neither looks at.
RemoveFileFail(t) ==
    /\ pc[t] = "remove"
    /\ Goto(t, "save")
    /\ UNCHANGED <<now, shared, writer, readers, seenAt, nextID, history>>

\* cleanup when os.Remove returns an error: it is logged, and the loop goes
\* on to delete(fm.files, id) as after a removal.
CleanupRemoveFail ==
    /\ pc[Sweeper] = "k_loop"
    /\ \E id \in todo[Sweeper] :
          /\ shouldDelete(heap[id], seenAt)
          /\ Local(Sweeper, "k_delete", "cleanup", id, "none", {},
                   todo[Sweeper], cnt[Sweeper])
    /\ UNCHANGED <<now, shared, writer, readers, seenAt, nextID, history>>

\* bulkDelete when os.Remove returns an error, which it does not look at.
BulkRemoveFail(t) ==
    /\ pc[t] = "b_loop"
    /\ todo[t] # <<>>
    /\ Head(todo[t]) \in files
    /\ Local(t, "b_delete", "bulk", Head(todo[t]), "none", pre[t], todo[t],
             cnt[t])
    /\ UNCHANGED <<now, shared, writer, readers, seenAt, nextID, history>>

NextFail ==
    \/ Next
    \/ \E t \in Threads : SaveFail(t)
    \/ \E t \in Requests, created \in BOOLEAN : UploadFail(t, created)
    \/ \E t \in Requests : RemoveFileFail(t)
    \/ CleanupRemoveFail
    \/ \E t \in Requests : BulkRemoveFail(t)

SpecFail == Init /\ [][NextFail]_vars

\* The program with failing uploads only: every os.Remove succeeds.
NextUploadFail ==
    \/ Next
    \/ \E t \in Requests, created \in BOOLEAN : UploadFail(t, created)

SpecUploadFail == Init /\ [][NextUploadFail]_vars

\* ---------------------------------------------------- colliding ids
\* Uploads and deletes of one request goroutine on the loaded registry,
\* generateID returning any id: one never returned before, or one that a loaded record has.
\* Nothing in generateID or uploadFile compares the 16 random bytes with
\* the ids in use, and the error of rand.Read is not looked at.
NextIds ==
    \/ \E id \in LoadedIDs \cup {nextID}, ttl \in TTLs, m \in Limits,
          p \in Passwords : UploadWriteAs("r1", id, ttl, m, p)
    \/ UploadPut("r1")
    \/ \E id \in LoadedIDs : DeleteEntry("r1", id)
    \/ RemoveFile("r1")
    \/ SaveBegin("r1")
    \/ SaveEnd("r1")
    \/ Return("r1")

SpecIds == InitLoaded /\ [][NextIds]_vars

\* ------------------------------------------------------------- search
\* Text is a sequence of code points: 'A', 'B', 'a', 'b', ' ', ',', '_'.
MaxLen == 2

Space == 32
Comma == 44
Underscore == 95

\* strings.ReplaceAll(s, old, new) for one-character old and new
ReplaceAll(s, old, new) ==
    [i \in 1 .. Len(s) |-> IF s[i] = old THEN new ELSE s[i]]

\* strings.ReplaceAll(s, " ", "")
RECURSIVE StripSpaces(_)
StripSpaces(s) ==
    IF s = <<>> THEN <<>>
    ELSE IF Head(s) = Space THEN StripSpaces(Tail(s))
    ELSE <<Head(s)>> \o StripSpaces(Tail(s))

\* strings.Split(s, ","): the pieces between the commas, empty ones kept
RECURSIVE Split(_)
Split(s) ==
    IF \A i \in 1 .. Len(s) : s[i] # Comma THEN <<s>>
    ELSE LET i == CHOOSE k \in 1 .. Len(s) :
                     s[k] = Comma /\ \A j \in 1 .. k - 1 : s[j] # Comma
         IN  <<SubSeq(s, 1, i - 1)>> \o Split(SubSeq(s, i + 1, Len(s)))

\* uploadFile, parsing the form value "tags"
ParseTags(tagsStr) ==
    IF tagsStr = <<>> THEN <<>> ELSE Split(StripSpaces(tagsStr))

\* strings.ToLower on ASCII
ToLower(s) ==
    [i \in 1 .. Len(s) |-> IF s[i] \in 65 .. 90 THEN s[i] + 32 ELSE s[i]]

\* strings.Contains(s, substr)
Contains(s, substr) ==
    \E i \in 0 .. Len(s) - Len(substr) :
        SubSeq(s, i + 1, i + Len(substr)) = substr

\* strings.EqualFold on ASCII: the same length, and at each place the same
\* character or the two cases of one letter
EqualFold(s, t) ==
    /\ Len(s) = Len(t)
    /\ \A i \in 1 .. Len(s) :
          LET lo == IF s[i] < t[i] THEN s[i] ELSE t[i]
              hi == IF s[i] < t[i] THEN t[i] ELSE s[i]
          IN  lo = hi \/ (lo \in 65 .. 90 /\ hi = lo + 32)

\* The text search of searchFiles comparing without lowering the case.
QueryMatchesExact(r, query) ==
    Contains(r.filename, query) \/ Contains(r.description, query)

\* searchFiles, the text search in filename and description
QueryMatches(r, query) ==
    \/ Contains(ToLower(r.filename), ToLower(query))
    \/ Contains(ToLower(r.description), ToLower(query))

\* searchFiles, the tag filter: the loop over fileInfo.Tags
TagMatches(r, tag) == \E i \in 1 .. Len(r.tags) : EqualFold(r.tags[i], tag)

\* searchFiles, the body of the loop over fm.files
Matches(r, query, tag) ==
    LET m1 == IF query # <<>> THEN TRUE /\ QueryMatches(r, query) ELSE TRUE
        m2 == IF tag # <<>> THEN m1 /\ TagMatches(r, tag) ELSE m1
    IN  m2

\* Form values of the uploads that made the records: file names,
\* descriptions and tag lists.
UploadNames == {<<97, 32, 66>>, <<65, 98>>, <<98>>}
Descriptions == {<<>>, <<66, 97>>}
TagLists == {<<>>, <<97, 44, 32, 66>>, <<65>>}

\* The record uploadFile builds from the form values (301-318).
Described(id, name, description, tagsStr) ==
    [id |-> id, expiresAt |-> MaxTime, downloads |-> 0, maxDownloads |-> 0,
     password |-> <<>>, path |-> id,
     filename |-> ReplaceAll(name, Space, Underscore),
     originalName |-> name, description |-> description,
     tags |-> ParseTags(tagsStr), size |-> 1, uploadTime |-> 0]

SearchHeaps ==
    {[id \in LoadedIDs |-> Described(id, f[id].n, f[id].d, f[id].t)] :
       f \in [LoadedIDs -> [n : UploadNames, d : Descriptions, t : TagLists]]}

\* A registry of MaxRecords records that were uploaded with names,
\* descriptions and tags.
InitSearch ==
    /\ now = 0
    /\ files = LoadedIDs
    /\ heap \in SearchHeaps
    /\ disk = LoadedIDs
    /\ metaFile = Written(Marshal(files, heap))
    /\ writer = NoThread
    /\ readers = {}
    /\ pc = [t \in Threads |-> IF t = Saver THEN "save" ELSE "idle"]
    /\ op = [t \in Threads |-> HomeOp(t)]
    /\ rid = [t \in Threads |-> 0]
    /\ resp = [t \in Threads |-> "none"]
    /\ todo = [t \in Threads |-> IF t = Sweeper THEN {} ELSE <<>>]
    /\ cnt = [t \in Threads |-> 0]
    /\ seenAt = 0
    /\ pre = [t \in Threads |-> {}]
    /\ nextID = 1
    /\ lastSaved = [id \in files |-> heap[id]]
    /\ boots = 0
    /\ config = DefaultConfig
    /\ tick0 = <<>>
    /\ bulk0 = <<>>

\* The values of ?q= and ?tag=
SearchChars == {65, 97, 98, Space}
SearchTexts == UNION {[1 .. n -> SearchChars] : n \in 0 .. MaxLen}

\* The values sort.Slice compares: a comes before b when Key(a) > Key(b).
SortKey(r, sortBy) ==
    CASE sortBy = "size" -> r.size
      [] sortBy = "downloads" -> r.downloads
      [] OTHER -> r.uploadTime

\* The orders sort.Slice may leave the pointers in S in, the records valued
\* as hp has them: no element comes after one it is to precede.  sort.Slice
\* is not stable, so equal keys come in any order.
SortedOrders(S, hp, sortBy) ==
    {o \in [1 .. Cardinality(S) -> S] :
       /\ \A i, j \in DOMAIN o : i # j => o[i] # o[j]
       /\ \A i, j \in DOMAIN o :
             i < j => SortKey(hp[o[i]], sortBy) >= SortKey(hp[o[j]], sortBy)}

\* json.NewEncoder(w).Encode of a []*FileInfo: each record as it is when
\* it is encoded.
Encoded(o, hp) == [i \in DOMAIN o |-> hp[o[i]]]

\* The values of ?sort=
SortBys == {"time", "size", "downloads"}

\* searchFiles from RLock to RUnlock: matchingFiles gets the pointers to the
\* records the loop keeps.  pre[t] holds the request's q, tag and sort, and
\* (history) the records as they are while the lock is held.
SearchFiles(t, query, tag, sortBy) ==
    /\ pc[t] = "idle"
    /\ CanRLock
    /\ LET found == {id \in files : Matches(heap[id], query, tag)}
       IN  Local(t, "s_sort", "search", 0, "none",
                 [q |-> query, tag |-> tag, sort |-> sortBy,
                  snap |-> [id \in found |-> heap[id]]],
                 found, 0)
    /\ UNCHANGED <<now, shared, writer, readers, seenAt, nextID, history>>

\* searchFiles, after RUnlock: the slice is sorted and encoded, the records
\* read through the pointers with no lock held.
SearchRespond(t) ==
    /\ pc[t] = "s_sort"
    /\ \E o \in SortedOrders(todo[t], heap, pre[t].sort) :
          Local(t, "done", "search", 0, Encoded(o, heap), pre[t], <<>>, 0)
    /\ UNCHANGED <<now, shared, writer, readers, seenAt, nextID, history>>

NextSearch ==
    \/ \E query \in SearchTexts, tag \in SearchTexts :
          SearchFiles("r1", query, tag, "time")
    \/ SearchRespond("r1")
    \/ Return("r1")

SpecSearch == InitSearch /\ [][NextSearch]_vars

\* ------------------------------------------------ stats, list, health
\* time.Time.Before
Before(t, u) == t < u

\* getStats: stats.TotalSize += fileInfo.Size over the records S
RECURSIVE TotalSize(_)
TotalSize(S) ==
    IF S = {} THEN 0
    ELSE LET id == CHOOSE x \in S : TRUE
         IN  heap[id].size + TotalSize(S \ {id})

\* getStats: stats.TotalDownloads += fileInfo.Downloads over the records S
RECURSIVE TotalDownloads(_)
TotalDownloads(S) ==
    IF S = {} THEN 0
    ELSE LET id == CHOOSE x \in S : TRUE
         IN  heap[id].downloads + TotalDownloads(S \ {id})

\* The UploadStats getStats builds in its loop over fm.files.
UploadStats ==
    [total_files |-> Cardinality(files), total_size |-> TotalSize(files),
     total_downloads |-> TotalDownloads(files),
     active_files |->
        Cardinality({id \in files : Before(now, heap[id].expiresAt)})]

\* getStats: everything, the encoding of the response too, runs between
\* RLock and the deferred RUnlock.
GetStats(t) ==
    /\ pc[t] = "idle"
    /\ CanRLock
    /\ Local(t, "done", "stats", 0, UploadStats, {}, <<>>, 0)
    /\ UNCHANGED <<now, shared, writer, readers, seenAt, nextID, history>>

\* healthCheck: len(fm.files) under RLock.
HealthCheck(t) ==
    /\ pc[t] = "idle"
    /\ CanRLock
    /\ Local(t, "done", "health", 0,
             [status |-> "healthy", file_count |-> Cardinality(files)], {},
             <<>>, 0)
    /\ UNCHANGED <<now, shared, writer, readers, seenAt, nextID, history>>

\* listFilesAPI's default limit (50) and greatest limit (1000), scaled to
\* registries of MaxRecords records.
DefaultLimit == 1
MaxLimit == 2

\* listFilesAPI clamping a limit above the greatest limit to it.
LimitClamped(l) ==
    IF ~l.err /\ l.n > MaxLimit THEN MaxLimit
    ELSE IF ~l.err /\ l.n > 0 THEN l.n
    ELSE DefaultLimit

\* listFilesAPI, ?limit=
Limit(l) ==
    IF ~l.err /\ l.n > 0 /\ l.n <= MaxLimit THEN l.n ELSE DefaultLimit

\* listFilesAPI, ?offset=
Offset(o) == IF ~o.err /\ o.n >= 0 THEN o.n ELSE 0

\* listFilesAPI, "Apply pagination": files[offset:end]
Page(s, offset, limit) ==
    LET total == Len(s)
        end == IF offset + limit > total THEN total ELSE offset + limit
    IN  IF offset >= total THEN <<>> ELSE SubSeq(s, offset + 1, end)

\* listFilesAPI from the parameters to RUnlock: files gets the pointers to
\* all records.  pre[t] holds the request's limit and offset, and (history)
\* the records as they are while the lock is held.
ListFiles(t, l, o) ==
    /\ pc[t] = "idle"
    /\ CanRLock
    /\ Local(t, "l_sort", "list", 0, "none",
             [limit |-> l, offset |-> o, snap |-> [id \in files |-> heap[id]]],
             files, 0)
    /\ UNCHANGED <<now, shared, writer, readers, seenAt, nextID, history>>

\* listFilesAPI, after RUnlock: sort by upload time, newest first, cut the
\* page and encode the response.
ListRespond(t) ==
    /\ pc[t] = "l_sort"
    /\ \E s \in SortedOrders(todo[t], heap, "time") :
          Local(t, "done", "list", 0,
                [files |-> Encoded(Page(s, Offset(pre[t].offset),
                                        Limit(pre[t].limit)), heap),
                 total |-> Len(s), limit |-> Limit(pre[t].limit),
                 offset |-> Offset(pre[t].offset)],
                pre[t], <<>>, 0)
    /\ UNCHANGED <<now, shared, writer, readers, seenAt, nextID, history>>

\* The records of an earlier run, with their upload times and their sizes,
\* which differ from record to record.
UploadTimes == {-2, -1}

ReadHeaps ==
    {[id \in LoadedIDs |->
         [id |-> id, expiresAt |-> f[id].e, downloads |-> 0,
          maxDownloads |-> 0, password |-> <<>>, path |-> id,
          size |-> id, uploadTime |-> f[id].u]] :
       f \in [LoadedIDs -> [e : 0 .. MaxTime, u : UploadTimes]]}

InitRead ==
    /\ now = 0
    /\ files = LoadedIDs
    /\ heap \in ReadHeaps
    /\ disk = LoadedIDs
    /\ metaFile = Written(Marshal(files, heap))
    /\ writer = NoThread
    /\ readers = {}
    /\ pc = [t \in Threads |-> IF t = Saver THEN "save" ELSE "idle"]
    /\ op = [t \in Threads |-> HomeOp(t)]
    /\ rid = [t \in Threads |-> 0]
    /\ resp = [t \in Threads |-> "none"]
    /\ todo = [t \in Threads |-> IF t = Sweeper THEN {} ELSE <<>>]
    /\ cnt = [t \in Threads |-> 0]
    /\ seenAt = 0
    /\ pre = [t \in Threads |-> {}]
    /\ nextID = 1
    /\ lastSaved = [id \in files |-> heap[id]]
    /\ boots = 0
    /\ config = DefaultConfig
    /\ tick0 = <<>>
    /\ bulk0 = <<>>

\* Goroutine r1 reads (info, stats, health, search, list) while goroutine
\* r2 downloads and deletes and time passes.
NextRead ==
    \/ Tick
    \/ \E id \in LoadedIDs : Info("r1", id)
    \/ GetStats("r1")
    \/ HealthCheck("r1")
    \/ \E sortBy \in SortBys : SearchFiles("r1", <<>>, <<>>, sortBy)
    \/ SearchRespond("r1")
    \/ ListFiles("r1", NoValue, NoValue)
    \/ ListRespond("r1")
    \/ Return("r1")
    \/ \E id \in LoadedIDs : DownloadLookup("r2", id, <<>>)
    \/ DownloadCheck("r2")
    \/ DownloadExpire("r2")
    \/ DownloadIncrement("r2")
    \/ DownloadServe("r2")
    \/ DownloadReturn("r2")
    \/ \E id \in LoadedIDs : DeleteEntry("r2", id)
    \/ RemoveFile("r2")
    \/ SaveBegin("r2")
    \/ SaveEnd("r2")
    \/ Return("r2")

SpecRead == InitRead /\ [][NextRead]_vars

\* The values of ?limit= and ?offset=
LimitValues == {NoValue} \cup {Value(n) : n \in -1 .. MaxLimit + 1}
OffsetValues == {NoValue} \cup {Value(n) : n \in -1 .. MaxRecords + 1}

\* One goroutine lists pages of the registry and deletes.
NextList ==
    \/ \E l \in LimitValues, o \in OffsetValues : ListFiles("r1", l, o)
    \/ ListRespond("r1")
    \/ \E id \in LoadedIDs : DeleteEntry("r1", id)
    \/ RemoveFile("r1")
    \/ SaveBegin("r1")
    \/ SaveEnd("r1")
    \/ Return("r1")

SpecList == InitRead /\ [][NextList]_vars

\* ------------------------------------------------------ configuration
\* loadConfig with a config.json that sets max_downloads.
Configs == {[maxDownloads |-> m] : m \in Limits}

InitConfig ==
    /\ now = 0
    /\ files = {}
    /\ heap = <<>>
    /\ disk = {}
    /\ metaFile = NoFile
    /\ writer = NoThread
    /\ readers = {}
    /\ pc = [t \in Threads |-> IF t = Saver THEN "save" ELSE "idle"]
    /\ op = [t \in Threads |-> HomeOp(t)]
    /\ rid = [t \in Threads |-> 0]
    /\ resp = [t \in Threads |-> "none"]
    /\ todo = [t \in Threads |-> IF t = Sweeper THEN {} ELSE <<>>]
    /\ cnt = [t \in Threads |-> 0]
    /\ seenAt = 0
    /\ pre = [t \in Threads |-> {}]
    /\ nextID = 1
    /\ lastSaved = <<>>
    /\ boots = 0
    /\ tick0 = <<>>
    /\ bulk0 = <<>>
    /\ config \in Configs

\* The values of the form's max_downloads
LimitForms == {NoValue} \cup {Value(m) : m \in Limits}

\* One goroutine uploads with and without max_downloads and downloads,
\* under any configuration.
NextConfig ==
    \/ Tick
    \/ \E ttl \in TTLs, md \in LimitForms : UploadForm("r1", ttl, md, <<>>)
    \/ UploadPut("r1")
    \/ \E id \in IDs : DownloadLookup("r1", id, <<>>)
    \/ DownloadCheck("r1")
    \/ DownloadExpire("r1")
    \/ DownloadIncrement("r1")
    \/ DownloadServe("r1")
    \/ DownloadReturn("r1")
    \/ RemoveFile("r1")
    \/ SaveBegin("r1")
    \/ SaveEnd("r1")
    \/ Return("r1")

SpecConfig == InitConfig /\ [][NextConfig]_vars

\* ------------------------------------------------------ time to live
\* time.Second in the units of the clock, and the width of time.Duration
\* (an int64), both scaled down.
Second == 2
DurationBits == 4

\* An int64 product: the low bits of the result, as a signed number.
Int64(n) ==
    LET half == 2 ^ (DurationBits - 1)
    IN  ((n + half) % (2 * half)) - half

\* uploadFile, "Parse TTL": time.Duration(ttlInt) * time.Second when the
\* form value is a number, fm.config.DefaultTTL when it is absent or is
\* not a number.
Ttl(v) == IF v.err THEN config.defaultTTL ELSE Int64(v.n * Second)

\* uploadFile from the form to UploadTime: time.Now(), the first of the two
\* readings of the clock in the FileInfo literal; generateID has run.
UploadStamp(t, v, maxDl, p) ==
    /\ pc[t] = "idle"
    /\ nextID <= MaxUploads
    /\ Local(t, "u_stamp", "upload", nextID, "none",
             [ttl |-> v, maxDownloads |-> maxDl, password |-> p,
              uploadTime |-> now], <<>>, 0)
    /\ nextID' = nextID + 1
    /\ UNCHANGED <<now, shared, writer, readers, seenAt, history>>

\* ExpiresAt: time.Now().Add(ttl), the second reading of the clock, the
\* rest of the literal, and the bytes placed at fileInfo.Path.
UploadBuild(t) ==
    /\ pc[t] = "u_stamp"
    /\ Local(t, "u_put", "upload", rid[t], "none", pre[t],
             <<FileInfo(rid[t], now + Ttl(pre[t].ttl),
                        pre[t].maxDownloads, pre[t].password)
               @@ [uploadTime |-> pre[t].uploadTime]>>, 0)
    /\ disk' = disk \cup {rid[t]}
    /\ UNCHANGED <<now, files, heap, metaFile, writer, readers, seenAt,
                   nextID, history>>

\* Configurations with a default time to live, and the values of the
\* form's ttl: absent or not a number, 0, a second, and a number of
\* seconds too great for a Duration.
TtlConfigs == {[maxDownloads |-> 0, defaultTTL |-> d] : d \in {1, 3}}
TtlForms == {NoValue, Value(0), Value(1), Value(2 ^ (DurationBits - 2))}

InitTtl ==
    /\ now = 0
    /\ files = {}
    /\ heap = <<>>
    /\ disk = {}
    /\ metaFile = NoFile
    /\ writer = NoThread
    /\ readers = {}
    /\ pc = [t \in Threads |-> IF t = Saver THEN "save" ELSE "idle"]
    /\ op = [t \in Threads |-> HomeOp(t)]
    /\ rid = [t \in Threads |-> 0]
    /\ resp = [t \in Threads |-> "none"]
    /\ todo = [t \in Threads |-> IF t = Sweeper THEN {} ELSE <<>>]
    /\ cnt = [t \in Threads |-> 0]
    /\ seenAt = 0
    /\ pre = [t \in Threads |-> {}]
    /\ nextID = 1
    /\ lastSaved = <<>>
    /\ boots = 0
    /\ tick0 = <<>>
    /\ bulk0 = <<>>
    /\ config \in TtlConfigs

\* One goroutine uploads with every value of ttl while the clock runs.
NextTtl ==
    \/ Tick
    \/ \E v \in TtlForms, m \in Limits : UploadStamp("r1", v, m, <<>>)
    \/ UploadBuild("r1")
    \/ UploadPut("r1")
    \/ SaveBegin("r1")
    \/ SaveEnd("r1")
    \/ Return("r1")

SpecTtl == InitTtl /\ [][NextTtl]_vars

\* ------------------------------------------------- the save, step by step
\* os.WriteFile after it has opened the metadata file (SaveBegin): the
\* write of the bytes marshalled under the read lock, which is still held,
\* so they are the registry as it is.
SaveWrite(t) ==
    /\ pc[t] = "saving"
    /\ metaFile' = Written(Marshal(files, heap))
    /\ Goto(t, "s_close")
    /\ UNCHANGED <<now, files, heap, disk, writer, readers, seenAt, nextID,
                   history>>

\* os.WriteFile closes the file and returns, the deferred RUnlock runs and
\* the caller goes on as after SaveEnd.
SaveReturn(t) ==
    /\ pc[t] = "s_close"
    /\ lastSaved' = [id \in files |-> heap[id]]
    /\ readers' = readers \ {t}
    /\ IF op[t] = "periodic" THEN Goto(t, "save")
       ELSE IF op[t] = "async"
       THEN Local(t, "idle", "none", 0, "none", {}, <<>>, 0)
       ELSE Answer(t, AfterSave(op[t]))
    /\ UNCHANGED <<now, files, heap, disk, metaFile, writer, seenAt, nextID,
                   boots, config, tick0, bulk0>>

\* The request goroutines upload, download and delete while the ticker
\* goroutine saves; every save is taken one system call at a time.
NextSaves ==
    \/ Tick
    \/ \E t \in Requests, ttl \in TTLs, m \in Limits :
          UploadWrite(t, ttl, m, <<>>)
    \/ \E t \in Requests : UploadPut(t)
    \/ \E t \in Requests, id \in IDs : DownloadLookup(t, id, <<>>)
    \/ \E t \in Requests : DownloadCheck(t)
    \/ \E t \in Requests : DownloadExpire(t)
    \/ \E t \in Requests : DownloadIncrement(t)
    \/ \E t \in Requests : DownloadServe(t)
    \/ \E t \in Requests : DownloadReturn(t)
    \/ \E t \in Requests : RemoveFile(t)
    \/ \E t \in Requests, id \in IDs : DeleteEntry(t, id)
    \/ \E t \in Requests : Return(t)
    \/ \E t \in Threads \ {Sweeper} : SaveBegin(t)
    \/ \E t \in Threads \ {Sweeper} : SaveWrite(t)
    \/ \E t \in Threads \ {Sweeper} : SaveReturn(t)

SpecSaves == Init /\ [][NextSaves]_vars

\* ------------------------------------------------- what a response shows
\* json.NewEncoder(w).Encode of a *FileInfo, every field under its key:
\* `json:"password,omitempty"` leaves an empty password out and a password
\* that is there is written as a JSON string.
EncodeInfo(r) ==
    IF r.password = <<>> THEN [f \in DOMAIN r \ {"password"} |-> r[f]]
    ELSE [r EXCEPT !.password = jsonString(@)]

\* fileInfo with the body of its response: the record found, encoded
\* after RUnlock.
InfoEncode(t, id) ==
    /\ pc[t] = "idle"
    /\ CanRLock
    /\ Serve(t, "info", id, <<>>,
             IF id \in files THEN [status |-> 200, body |-> EncodeInfo(heap[id])]
             ELSE [status |-> 404, body |-> <<>>])
    /\ UNCHANGED <<now, shared, writer, readers, seenAt, nextID, history>>

\* manageFiles from RLock to RUnlock: files gets the pointers to all
\* records.
ManageFiles(t) ==
    /\ pc[t] = "idle"
    /\ CanRLock
    /\ Local(t, "m_sort", "manage", 0, "none", {}, files, 0)
    /\ UNCHANGED <<now, shared, writer, readers, seenAt, nextID, history>>

\* The link of the template's Download button:
\* /download/{{.ID}}{{if .Password}}?password={{.Password}}{{end}}, the
\* password escaped for a URL, which loses nothing of it.
DownloadLink(r) ==
    IF r.password = <<>> THEN [id |-> r.id]
    ELSE [id |-> r.id, password |-> r.password]

\* The row of the management page for record r at time t.
TemplateFile(r, t) ==
    [size |-> r.size, uploadTime |-> r.uploadTime, expiresAt |-> r.expiresAt,
     downloads |-> r.downloads, maxDownloads |-> r.maxDownloads,
     isExpired |-> t > r.expiresAt,
     nearLimit |-> /\ r.maxDownloads > 0
                   /\ r.downloads >= r.maxDownloads - 1
                   /\ ~(t > r.expiresAt),
     download |-> DownloadLink(r), delete |-> r.id]

\* What manageFiles answers for the records in the order o, valued as hp
\* has them: the encoded slice when the request accepts application/json,
\* the page with its statistics otherwise.
ManagePage(o, hp, accept, stats, t) ==
    IF accept = "json" THEN [i \in DOMAIN o |-> EncodeInfo(hp[o[i]])]
    ELSE [files |-> [i \in DOMAIN o |-> TemplateFile(hp[o[i]], t)],
          stats |-> stats]

\* The values of the Accept header that matter.
Accepts == {"json", "html"}

\* manageFiles, after RUnlock: the slice is sorted by upload time and
\* answered; for the page the statistics are taken under a second RLock.
\* pre[t] keeps the request's Accept.
ManageRespond(t, accept) ==
    /\ pc[t] = "m_sort"
    /\ accept = "html" => CanRLock
    /\ \E o \in SortedOrders(todo[t], heap, "time") :
          Local(t, "done", "manage", 0,
                ManagePage(o, heap, accept, UploadStats, now),
                [accept |-> accept], todo[t], 0)
    /\ UNCHANGED <<now, shared, writer, readers, seenAt, nextID, history>>

\* The records of an earlier run, with and without passwords.
DiscloseHeaps ==
    {[id \in LoadedIDs |->
         [id |-> id, expiresAt |-> 1, downloads |-> 0,
          maxDownloads |-> 1, password |-> pw[id], path |-> id,
          size |-> id, uploadTime |-> 0 - id]] :
       pw \in [LoadedIDs -> Passwords]}

InitDisclose ==
    /\ now = 0
    /\ files = LoadedIDs
    /\ heap \in DiscloseHeaps
    /\ disk = LoadedIDs
    /\ metaFile = Written(Marshal(files, heap))
    /\ writer = NoThread
    /\ readers = {}
    /\ pc = [t \in Threads |-> IF t = Saver THEN "save" ELSE "idle"]
    /\ op = [t \in Threads |-> HomeOp(t)]
    /\ rid = [t \in Threads |-> 0]
    /\ resp = [t \in Threads |-> "none"]
    /\ todo = [t \in Threads |-> IF t = Sweeper THEN {} ELSE <<>>]
    /\ cnt = [t \in Threads |-> 0]
    /\ seenAt = 0
    /\ pre = [t \in Threads |-> {}]
    /\ nextID = 1
    /\ lastSaved = [id \in files |-> heap[id]]
    /\ boots = 0
    /\ config = DefaultConfig
    /\ tick0 = <<>>
    /\ bulk0 = <<>>

\* One goroutine asks for info, a search, a listing and the management
\* page, and never sends a password.
NextDisclose ==
    \/ Tick
    \/ \E id \in LoadedIDs : InfoEncode("r1", id)
    \/ SearchFiles("r1", <<>>, <<>>, "time")
    \/ SearchRespond("r1")
    \/ ListFiles("r1", NoValue, NoValue)
    \/ ListRespond("r1")
    \/ ManageFiles("r1")
    \/ \E accept \in Accepts : ManageRespond("r1", accept)
    \/ Return("r1")

SpecDisclose == InitDisclose /\ [][NextDisclose]_vars

\* ================================================================ claims
\* The steps goroutine t may take.
ThreadStep(t) ==
    \/ SaveBegin(t) \/ SaveEnd(t)
    \/ t = Sweeper /\ (CleanupBegin \/ CleanupStep \/ CleanupDeleteEntry)
    \/ /\ t \in Requests
       /\ \/ UploadPut(t) \/ DownloadCheck(t) \/ DownloadExpire(t)
          \/ DownloadIncrement(t) \/ DownloadServe(t) \/ DownloadReturn(t)
          \/ RemoveFile(t) \/ BulkStep(t) \/ BulkDeleteEntry(t) \/ Return(t)

HoldsLock(t) == writer = t \/ t \in readers

\* A request goroutine has just answered a request of kind o.
Answered(t, o) == pc[t] = "done" /\ op[t] = o

\* C1: the download counter of a record with a limit never exceeds the
\* limit, in any state.
C1_DownloadsWithinLimit ==
    \A id \in files :
        heap[id].maxDownloads > 0 => heap[id].downloads <= heap[id].maxDownloads

\* C2: no operation blocks for ever: a goroutine that holds the registry
\* lock can always take its next step, so it comes to release the lock.
C2_LockHolderProceeds ==
    \A t \in Threads : HoldsLock(t) => ENABLED ThreadStep(t)

\* C3: in every state in which the registry lock can be acquired, the path
\* of every record of the registry names bytes that are in the store.
C3_NoDanglingPath ==
    writer = NoThread => \A id \in files : heap[id].path \in disk

\* C3's case: an upload has completed, the lock is free, and the record is
\* in the registry with its bytes in the store.
C3_Witness ==
    /\ writer = NoThread
    /\ \E t \in Requests : Answered(t, "upload") /\ rid[t] \in files
                             /\ heap[rid[t]].path \in disk

\* The password goroutine t supplied is accepted by the record it looked up.
Accepted(t) == heap[rid[t]].password = <<>> \/ "match" \in pre[t]

\* C4 as the spec states it: a download of a record that was past its
\* expiry when looked up fails with NotFound or Expired, and the record is
\* then out of the registry.
C4_ExpiredDownloadNotFound ==
    \A t \in Requests :
        Answered(t, "download") /\ "expired" \in pre[t] =>
            resp[t] \in {"NotFound", "Expired"} /\ rid[t] \notin files

\* C4, amended: a download of a record that was past its expiry when looked
\* up never increments the counter and never serves bytes; if its password
\* is accepted it takes the record out of the registry and fails with
\* Expired; if its password is rejected it fails with Unauthorized.
C4_ExpiredDownloadFails ==
    \A t \in Requests :
        op[t] = "download" /\ "expired" \in pre[t] =>
            /\ pc[t] \notin {"d_inc", "d_serve"}
            /\ pc[t] \in {"remove", "save", "saving"} => rid[t] \notin files
            /\ pc[t] = "done" =>
                  IF Accepted(t)
                  THEN resp[t] = "Expired" /\ rid[t] \notin files
                  ELSE resp[t] = "Unauthorized"

\* C4's case: a download of an expired record has been answered Expired.
C4_Witness ==
    \E t \in Requests :
        Answered(t, "download") /\ "expired" \in pre[t] /\ resp[t] = "Expired"

C6_LimitReachedAlways ==
    \A t \in Requests :
        Answered(t, "download") /\ "limit" \in pre[t] =>
            resp[t] = "LimitReached"

\* C6, amended: a download of a record whose counter had reached its limit
\* never increments the counter and never serves bytes; it fails with
\* Unauthorized if its password is rejected, else with Expired if the
\* record is past its expiry when checked, else with LimitReached.
C6_LimitReachedFails ==
    \A t \in Requests :
        op[t] = "download" /\ "limit" \in pre[t] =>
            /\ pc[t] \notin {"d_inc", "d_serve"}
            /\ pc[t] = "done" =>
                  IF ~Accepted(t) THEN resp[t] = "Unauthorized"
                  ELSE IF "expired" \in pre[t] THEN resp[t] = "Expired"
                  ELSE resp[t] \in {"LimitReached", "Expired"}

\* C6's case: a download of a record at its limit has been answered
\* LimitReached.
C6_Witness ==
    \E t \in Requests :
        /\ Answered(t, "download") /\ "limit" \in pre[t]
        /\ resp[t] = "LimitReached"

\* What C7 asks of goroutine t's download of a record it found: with an
\* accepted password it is never answered Unauthorized; with a rejected one
\* it is answered Unauthorized by the lookup and goes no further.
PasswordRespected(t) ==
    op[t] = "download" /\ "present" \in pre[t] =>
        IF Accepted(t) THEN ~(pc[t] = "done" /\ resp[t] = "Unauthorized")
        ELSE pc[t] = "done" /\ resp[t] = "Unauthorized"

\* C7: a download goes past the password check, and so can return bytes,
\* only if the record has no password or the supplied one equals it; any
\* other download is answered Unauthorized by a step that changes neither
\* the registry, the records, the store nor the snapshot.
C7_PasswordGuardsDownload ==
    [][\A t \in Requests :
          /\ PasswordRespected(t)'
          /\ pc[t] = "idle" /\ pc'[t] = "done" /\ resp'[t] = "Unauthorized"
                => UNCHANGED shared]_vars

\* C7's case: of two downloads of a record with a password, one was served
\* and the other answered Unauthorized.
C7_Witness ==
    \E t, u \in Requests :
        /\ Answered(t, "download") /\ resp[t] = "Served"
        /\ heap[rid[t]].password # <<>>
        /\ Answered(u, "download") /\ resp[u] = "Unauthorized"

\* The sweeper's tick has removed nothing and no record of the registry is
\* past its expiry at the tick's time or at its download limit.
NothingEligible ==
    /\ cnt[Sweeper] = 0
    /\ \A id \in files :
          /\ ~((IF pc[Sweeper] = "idle" THEN now ELSE seenAt)
                  > heap[id].expiresAt)
          /\ ~(heap[id].maxDownloads > 0
                  /\ heap[id].downloads >= heap[id].maxDownloads)

Registry == [id \in files |-> heap[id]]

\* The process is restarted by this step.
Restarts == boots' = boots + 1

\* C8: when the snapshot of the current registry has been written and the
\* registry is then loaded from it, the loaded registry holds exactly the
\* records whose bytes are in the store, each equal in every field to the
\* record that was saved.
C8_RoundTrip ==
    [][Restarts /\ metaFile.st = "ok" /\ lastSaved = Registry
          => /\ files' = {id \in files : heap[id].path \in disk}
             /\ \A id \in files' : heap'[id] = heap[id]]_vars

\* C9: whenever the process is restarted, the loaded registry holds every
\* id of the last completed save whose bytes are in the store.
C9_CrashRecovery ==
    [][Restarts
          => \A id \in DOMAIN lastSaved :
                 lastSaved[id].path \in disk => id \in files']_vars

\* Goroutine t is on a path that removes a record: a sweeper tick that found
\* one, a download's expiry path, deleteFile after its lookup, bulkDelete.
InRemoval(t) ==
    \/ t = Sweeper /\ (pc[t] = "k_delete" \/ cnt[t] > 0)
    \/ op[t] = "download" /\ pc[t] \in {"d_expire", "remove", "save", "saving"}
    \/ op[t] = "delete" /\ pc[t] \in {"remove", "save", "saving"}
    \/ op[t] = "bulk" /\ pc[t] \in {"b_loop", "b_delete", "save", "saving"}

\* C11: when removal paths race, all of them complete: a goroutine on a
\* removal path can take its next step, or waits for the lock behind a
\* holder that can take its own.
C11_RacingRemovalsComplete ==
    \A t \in Threads :
        InRemoval(t) =>
            \/ ENABLED ThreadStep(t)
            \/ \E u \in Threads \ {t} : HoldsLock(u) /\ ENABLED ThreadStep(u)

\* Record r is eligible for eviction at time t.
Eligible(r, t) ==
    t > r.expiresAt \/ (r.maxDownloads > 0 /\ r.downloads >= r.maxDownloads)

\* The sweeper has gone through the whole registry in this tick.
SweepDone == pc[Sweeper] = "k_loop" /\ todo[Sweeper] = {}

\* C12: when a sweeper tick has gone through the registry, the registry is
\* the one the tick found minus exactly the records eligible at the tick's
\* time; the bytes of the removed records are gone, and every other record
\* is unchanged and has its bytes.
C12_SweepRemovesEligible ==
    SweepDone =>
        /\ files = {id \in DOMAIN tick0 : ~Eligible(tick0[id], seenAt)}
        /\ \A id \in DOMAIN tick0 :
              IF id \in files
              THEN heap[id] = tick0[id] /\ heap[id].path \in disk
              ELSE tick0[id].path \notin disk

\* C12's case: a tick has removed a record that was past its expiry with
\* downloads left, and has kept another record.
C12_Witness ==
    /\ SweepDone
    /\ files # {}
    /\ \E id \in DOMAIN tick0 \ files :
          /\ seenAt > tick0[id].expiresAt
          /\ tick0[id].downloads < tick0[id].maxDownloads

\* C13: every record that becomes eligible is removed by the sweeper in the
\* end.  The part of it a finite run can refute: while a record of the
\* registry is eligible, the sweeper is not stopped for good, that is, not
\* holding the lock without a step it could take.
C13_EligibleIsSwept ==
    (\E id \in files : Eligible(heap[id], now)) =>
        ~HoldsLock(Sweeper) \/ ENABLED ThreadStep(Sweeper)

\* Goroutine t is inside os.WriteFile of the snapshot, has just returned
\* from os.Remove in cleanup or bulkDelete, is about to call os.Remove in
\* deleteFile or downloadFile, or has just written an upload's bytes.
AtDiskIO(t) == pc[t] \in {"saving", "k_delete", "b_delete", "remove", "u_put"}

\* C14: a goroutine that is at a file removal, a file write or the snapshot
\* write holds the registry lock in neither mode.
C14_NoIOUnderLock ==
    \A t \in Threads : AtDiskIO(t) => ~HoldsLock(t)

\* C15: when a save ends, having failed or not, the registry, the records
\* and the store are as they were, a handler that waited for the save
\* answers what it answers after a successful save, and a save that did
\* write the snapshot wrote the registry as it is now.
C15_SaveFailureIsHarmless ==
    [][\A t \in Threads :
          pc[t] = "saving" /\ pc'[t] # "saving" =>
             /\ files' = files /\ heap' = heap /\ disk' = disk
             /\ op[t] \in {"upload", "delete", "bulk", "download"} =>
                   pc'[t] = "done" /\ resp'[t] = AfterSave(op[t])
             /\ metaFile' # metaFile =>
                   metaFile' = Written(Marshal(files', heap'))]_vars

\* C15's case: no save has succeeded yet, the snapshot file is cut off with
\* nobody writing it, and the upload whose save failed was answered as
\* uploaded, its record being in the registry.
C15_Witness ==
    /\ lastSaved = <<>> /\ metaFile.st = "partial"
    /\ \A u \in Threads : pc[u] # "saving"
    /\ \E t \in Requests :
          Answered(t, "upload") /\ resp[t] = "Uploaded" /\ rid[t] \in files

\* C16: an upload either places its bytes at the record's path and goes on
\* to the insert, or answers a server error and leaves the registry, the
\* records and the snapshot as they were; and a record enters the registry
\* only by the insert of an upload, with a file at its path.
C16_UploadFailureLeavesRegistry ==
    [][/\ \A t \in Requests :
             pc[t] = "idle" /\ op'[t] = "upload" =>
                IF pc'[t] = "u_put"
                THEN Head(todo'[t]).path \in disk'
                ELSE /\ pc'[t] = "done" /\ resp'[t] = "ServerError"
                     /\ files' = files /\ heap' = heap
                     /\ metaFile' = metaFile
       /\ \A id \in files' \ files :
             /\ heap'[id].path \in disk
             /\ \E t \in Requests : pc[t] = "u_put" /\ rid[t] = id]_vars

\* C16's case: an upload failed while copying to its destination; it was
\* answered a server error, the cut-off file is in the store and the
\* registry is empty as before.
C16_Witness ==
    /\ \E t \in Requests : Answered(t, "upload") /\ resp[t] = "ServerError"
    /\ files = {} /\ disk # {} /\ heap = <<>>

\* The file of the record goroutine t is removing is in the store.
FileStays(t) == heap[rid'[t]].path \in disk'

C18_IdsNeverReused ==
    [][\A t \in Requests :
          pc[t] = "u_put" /\ pc'[t] # "u_put" =>
             /\ rid[t] \notin DOMAIN heap
             /\ \A id \in files : id \in files' /\ heap'[id] = heap[id]]_vars

\* The two cases of one letter, or the same character.
SameLetter(a, b) ==
    \/ a = b
    \/ a \in 65 .. 90 /\ b = a + 32
    \/ b \in 65 .. 90 /\ a = b + 32

\* Text s occurs in text x when the case of letters is not looked at.
OccursIn(s, x) ==
    \E i \in 0 .. Len(x) - Len(s) :
        \A k \in 1 .. Len(s) : SameLetter(s[k], x[i + k])

\* Text s is text x when the case of letters is not looked at.
SameText(s, x) ==
    Len(s) = Len(x) /\ \A k \in 1 .. Len(s) : SameLetter(s[k], x[k])

\* Record r passes the query filter / the tag filter of a search.
PassesQuery(r, q) == OccursIn(q, r.filename) \/ OccursIn(q, r.description)
PassesTag(r, tag) == \E i \in DOMAIN r.tags : SameText(tag, r.tags[i])

\* The matching step of a search by goroutine t.
Searched(t) == pc[t] = "idle" /\ pc'[t] = "s_sort"

\* C19: a search finds exactly the records of the registry that pass every
\* filter it was given: the query occurs in the file name or the description
\* whatever the case, the tag is one of the record's tags whatever the case;
\* with a tag alone, exactly the records having the tag; with no filter,
\* every record.
C19_SearchFindsMatching ==
    [][\A t \in Requests : Searched(t) =>
          LET q == pre'[t].q
              tag == pre'[t].tag
          IN  /\ todo'[t] =
                   {id \in files :
                      /\ q # <<>> => PassesQuery(heap[id], q)
                      /\ tag # <<>> => PassesTag(heap[id], tag)}
              /\ q = <<>> /\ tag # <<>> =>
                   todo'[t] = {id \in files : PassesTag(heap[id], tag)}
              /\ q = <<>> /\ tag = <<>> => todo'[t] = files]_vars

\* A search with a query and a tag has found one record of two, by a name
\* or description that has the query in another case.
C19_Witness ==
    \E t \in Requests :
        /\ pc[t] = "s_sort"
        /\ pre[t].q # <<>> /\ pre[t].tag # <<>>
        /\ todo[t] # {} /\ todo[t] # files
        /\ \E id \in todo[t] : ~QueryMatchesExact(heap[id], pre[t].q)
        /\ \E id \in files \ todo[t] : QueryMatches(heap[id], pre[t].q)

\* The ids a bulk-delete request of goroutine t names.
Requested(t) == {pre[t][i] : i \in DOMAIN pre[t]}

\* The loop of bulkDelete has visited every id: the step to Unlock.
BulkLoopEnds(t) == pc[t] = "b_loop" /\ todo[t] = <<>> /\ pc'[t] # "b_loop"

\* C20: when a bulk-delete has visited its ids, the registry is the
\* registry it found less the requested ids, the other records are as they
\* were, the files of the removed records are gone, and deleted is the
\* number of records removed, at most the number of ids requested, absent
\* and repeated ids not counted; the request is then answered without
\* error, with that deleted and with total = the number of ids requested.
C20_BulkDeleteCounts ==
    [][\A t \in Requests :
          /\ BulkLoopEnds(t) =>
                /\ files = DOMAIN bulk0 \ Requested(t)
                /\ \A id \in files : heap[id] = bulk0[id]
                /\ \A id \in DOMAIN bulk0 \cap Requested(t) :
                      bulk0[id].path \notin disk
                /\ cnt[t] = Cardinality(DOMAIN bulk0 \cap Requested(t))
                /\ cnt[t] <= Len(pre[t])
          /\ op[t] = "bulk" /\ pc[t] \in {"b_loop", "save", "saving"}
                /\ todo[t] = <<>> /\ pc'[t] # pc[t] =>
                /\ cnt'[t] = cnt[t] /\ pre'[t] = pre[t]
                /\ pc'[t] = "done" => resp'[t] = "BulkDone"
                /\ pc'[t] \in {"save", "saving", "done"}]_vars

\* A bulk-delete that named one id twice has answered: deleted is 1 and
\* total is 2.
C20_Witness ==
    \E t \in Requests :
        /\ Answered(t, "bulk") /\ resp[t] = "BulkDone"
        /\ Len(pre[t]) = 2 /\ pre[t][1] = pre[t][2]
        /\ cnt[t] = 1

\* Goroutine t answers a stats request: the step of getStats.
StatsAnswered(t) == pc[t] = "idle" /\ pc'[t] = "done" /\ op'[t] = "stats"

\* C21: the response of stats is taken from one state of the registry:
\* count is the number of records, total size and total downloads are the
\* sums over the records, and active count is the number of records that
\* are not past expiresAt by the sweeper's test now > expiresAt; active
\* count is at most count.
C21_StatsOfOneState ==
    [][\A t \in Requests : StatsAnswered(t) =>
          /\ resp'[t].total_files = Cardinality(files)
          /\ resp'[t].total_size = TotalSize(files)
          /\ resp'[t].total_downloads = TotalDownloads(files)
          /\ resp'[t].active_files =
                Cardinality({id \in files : ~Expired(heap[id], now)})
          /\ resp'[t].active_files <= resp'[t].total_files]_vars

\* The handlers that only read.
ReadOps == {"info", "list", "search", "stats", "health"}

\* A step of goroutine t that belongs to a reading handler.
ReadStep(t) ==
    pc'[t] # pc[t] /\ (op[t] \in ReadOps \/ op'[t] \in ReadOps)

\* C22: no step of info, list, search, stats or health changes the
\* registry, a field of a record, the content store or the snapshot,
\* whatever the other goroutines are doing.
C22_ReadsChangeNothing ==
    [][\A t \in Requests : ReadStep(t) =>
          /\ files' = files /\ heap' = heap
          /\ disk' = disk /\ metaFile' = metaFile]_vars

\* A search has been answered while a download of the other goroutine is
\* between its checks and its increment.
C22_Witness ==
    \E t, u \in Requests :
        /\ Answered(t, "search") /\ Len(resp[t]) = MaxRecords
        /\ pc[u] = "d_inc"

\* Goroutine t sorts and encodes what its search or listing collected.
Responds(t) == pc[t] \in {"s_sort", "l_sort"} /\ pc'[t] = "done"

\* C23: what a search or a listing returns is the registry as it was at
\* the instant the records were collected: each record returned has the
\* values it had then, the download count too, the order is the order of
\* those values, and a search returns all the records it collected.
C23_SnapshotIsImmutable ==
    [][\A t \in Requests : Responds(t) =>
          LET out == IF op[t] = "list" THEN resp'[t].files ELSE resp'[t]
              snap == pre[t].snap
              by == IF op[t] = "list" THEN "time" ELSE pre[t].sort
          IN  /\ \A i \in DOMAIN out : out[i] = snap[out[i].id]
              /\ \A i, j \in DOMAIN out :
                    i < j => SortKey(snap[out[i].id], by)
                               >= SortKey(snap[out[j].id], by)
              /\ op[t] = "search" =>
                    {out[i].id : i \in DOMAIN out} = DOMAIN snap]_vars

\* The limit a listing is to use for the parameter l, a limit above the
\* greatest limit counting as over: the parameter when it is a number from
\* 1 to the greatest limit, the default when it is absent, not a number or
\* below 1.
ExpectedLimit(l, over) ==
    IF l.err \/ l.n <= 0 THEN DefaultLimit
    ELSE IF l.n > MaxLimit THEN over
    ELSE l.n

\* The response goroutine t gives to a listing is the page of lim records
\* from the request's offset of the collected records, newest upload first;
\* it is empty when the offset is not below their number, and total is
\* their number.
ListsPage(t, lim) ==
    LET out == resp'[t].files
        snap == pre[t].snap
        o == pre[t].offset
        off == IF o.err \/ o.n < 0 THEN 0 ELSE o.n
        total == Cardinality(DOMAIN snap)
        rest == IF off >= total THEN 0 ELSE total - off
        n == IF lim < rest THEN lim ELSE rest
    IN  /\ \E s \in SortedOrders(DOMAIN snap, snap, "time") :
              out = [i \in 1 .. n |-> snap[s[off + i]]]
        /\ Len(out) <= lim
        /\ off >= total => out = <<>>
        /\ resp'[t].total = total
        /\ resp'[t].limit = lim

\* C24 as stated: a listing returns the page at its offset of the records
\* sorted by upload time, newest first, never more records than the limit,
\* with total the number of records, and a limit above the greatest limit
\* is taken as the greatest limit.
C24_PageClamped ==
    [][\A t \in Requests : pc[t] = "l_sort" /\ pc'[t] = "done" =>
          ListsPage(t, ExpectedLimit(pre[t].limit, MaxLimit))]_vars

\* C24, amended: the same, but a limit above the greatest limit is taken
\* as the default limit, like a limit that is absent or below 1.
C24_PageOfListing ==
    [][\A t \in Requests : pc[t] = "l_sort" /\ pc'[t] = "done" =>
          ListsPage(t, ExpectedLimit(pre[t].limit, DefaultLimit))]_vars

\* A listing asked for more than the greatest limit has returned the
\* default number of records out of more.
C24_Witness ==
    \E t \in Requests :
        /\ Answered(t, "list")
        /\ ~pre[t].limit.err /\ pre[t].limit.n > MaxLimit
        /\ resp[t].total > DefaultLimit
        /\ Len(resp[t].files) = DefaultLimit

\* C25: an upload whose form has no max_downloads gets the configured
\* default limit as the maxDownloads of its record.
C25_DefaultLimitApplies ==
    [][\A t \in Requests :
          pc[t] = "idle" /\ pc'[t] = "u_put" /\ pre'[t].max_downloads.err =>
             Head(todo'[t]).maxDownloads = config.maxDownloads]_vars

\* No request is being handled and no sweep is under way.
Quiescent ==
    /\ \A t \in Requests : pc[t] = "idle"
    /\ pc[Sweeper] = "idle"

\* C26: when no operation is in progress, the files of the content store
\* are the paths of the records of the registry, one file for each record:
\* no file is left without a record.
C26_NoOrphanBytes ==
    Quiescent =>
        /\ disk = {heap[id].path : id \in files}
        /\ \A id, other \in files :
              heap[id].path = heap[other].path => id = other

\* The ids whose records were removed from the registry.
Removed == DOMAIN heap \ files

\* C27: an id whose record was removed from the registry, by a delete, a
\* bulk-delete, a download's expiry or the sweeper, stays out of it, and
\* every download or info request for it that starts afterwards is
\* answered NotFound at once, without bytes, whether or not the file of the
\* record was removed.
C27_RemovedIsNotFound ==
    [][/\ \A id \in Removed : id \notin files'
       /\ \A t \in Requests :
             /\ pc[t] = "idle" /\ op'[t] \in {"download", "info"}
             /\ rid'[t] \in Removed
             => pc'[t] = "done" /\ resp'[t] = "NotFound"]_vars

\* A download of a removed record whose file is still there, its removal
\* having failed, has been answered NotFound.
C27_Witness ==
    \E t \in Requests :
        /\ Answered(t, "download") /\ resp[t] = "NotFound"
        /\ rid[t] \in Removed /\ heap[rid[t]].path \in disk
        /\ \A u \in Requests \ {t} : pc[u] = "idle"
        /\ pc[Sweeper] = "idle"

\* Goroutine t counts its download of record id in this step.
Counts(t, id) ==
    /\ op[t] = "download" /\ rid[t] = id
    /\ pc[t] = "d_inc" /\ pc'[t] = "d_serve"

\* C28: in every step the downloads counter of every record stays as it is
\* or grows by exactly 1, and it grows only in the counting step of one
\* download request; a request comes to that step once, and only by
\* finding the record in the registry with a password that is accepted and
\* then finding it not past its expiry and not at its limit.
C28_CounterGrowsByGrantedDownloads ==
    [][/\ \A id \in DOMAIN heap :
             \/ heap'[id].downloads = heap[id].downloads
             \/ /\ heap'[id].downloads = heap[id].downloads + 1
                /\ \E t \in Requests :
                      /\ Counts(t, id)
                      /\ \A u \in Requests \ {t} : ~Counts(u, id)
       /\ \A t \in Requests :
             /\ pc'[t] = "d_inc" /\ pc[t] # "d_inc" =>
                   /\ pc[t] = "d_check"
                   /\ ~(now > heap[rid[t]].expiresAt)
                   /\ ~(heap[rid[t]].maxDownloads > 0
                          /\ heap[rid[t]].downloads
                                >= heap[rid[t]].maxDownloads)
             /\ pc'[t] = "d_check" /\ pc[t] # "d_check" =>
                   /\ pc[t] = "idle" /\ rid'[t] \in files
                   /\ \/ heap[rid'[t]].password = <<>>
                      \/ "match" \in pre'[t]
             /\ pc[t] = "d_serve" /\ pc'[t] # "d_serve" => pc'[t] = "done"]_vars

\* One request has counted its download of a record while a request for
\* the same record that was rejected has been answered.
C28_Witness ==
    \E t, u \in Requests :
        /\ op[t] = "download" /\ pc[t] = "d_serve"
        /\ heap[rid[t]].downloads = 1
        /\ Answered(u, "download") /\ rid[u] = rid[t]
        /\ resp[u] \in {"Unauthorized", "LimitReached"}

\* C29: no step changes a field other than downloads of a record that is
\* in the registry: the record stays in the registry as it is or leaves it;
\* and an id that left the registry does not enter it again.
C29_FieldsAreImmutable ==
    [][/\ \A id \in files \cap files' :
             heap'[id] = [heap[id] EXCEPT !.downloads = heap'[id].downloads]
       /\ \A id \in Removed : id \notin files']_vars

\* A record with a password and a limit has been downloaded after time
\* has passed, and is in the registry.
C29_Witness ==
    \E t \in Requests :
        /\ Answered(t, "download") /\ resp[t] = "Served"
        /\ rid[t] \in files /\ now > 0
        /\ heap[rid[t]].downloads = 1
        /\ heap[rid[t]].password = PwA /\ heap[rid[t]].maxDownloads = 1

\* C30: the sweeper saves in a tick only if the tick removed a record, and
\* a tick that removed a record performs its save: when the sweeper has
\* come to the save, saveMetadata can take the read lock and write the
\* registry as the sweep left it.
C30_SweepSavesWhatItRemoved ==
    /\ pc[Sweeper] \in {"save", "saving"} => cnt[Sweeper] > 0
    /\ pc[Sweeper] = "save" => ENABLED SaveBegin(Sweeper)

\* The step in which the handler of a mutating request writes the response
\* that reports the mutation.
ReportsMutation(t) ==
    /\ pc[t] # "done" /\ pc'[t] = "done"
    /\ op'[t] \in {"upload", "delete", "bulk"}
    /\ resp'[t] \in {"Uploaded", "Deleted", "BulkDone"}

\* C31: an upload, a delete or a bulk-delete that changed the registry
\* answers only as its own saveMetadata call returns: the save has run to
\* its end and, no save failing, the metadata file then holds the registry
\* as it is, which has the mutation behind it.  A bulk-delete that deleted
\* nothing answers straight from its loop and writes nothing.
C31_SavedBeforeResponse ==
    [][\A t \in Requests :
          ReportsMutation(t) =>
             IF op'[t] = "bulk" /\ cnt'[t] = 0
             THEN pc[t] = "b_loop" /\ UNCHANGED <<metaFile, lastSaved>>
             ELSE /\ pc[t] \in {"saving", "s_close"}
                  /\ metaFile' = Written(Marshal(files', heap'))
                  /\ lastSaved' = [id \in files' |-> heap'[id]]]_vars

\* The process as NewFileManager leaves it: no lock held, no request taken,
\* the two background goroutines at their start.
Started ==
    /\ writer = NoThread /\ readers = {}
    /\ \A t \in Threads : pc[t] = IF t = Saver THEN "save" ELSE "idle"

\* C32: a start of the process with no metadata file goes through and
\* leaves the registry empty; a start with a metadata file that holds
\* records leaves in the registry exactly the records of the file whose
\* path is a file of the store, each as the file has it, and none of the
\* records whose file is missing.
C32_LoadKeepsRecordsWithBytes ==
    [][Restarts =>
          /\ Started'
          /\ metaFile.st = "absent" => files' = {}
          /\ metaFile.st = "ok" =>
                /\ files' = {id \in DOMAIN metaFile.recs :
                                metaFile.recs[id].path \in disk}
                /\ \A id \in files' :
                      MarshalInfo(heap'[id]) = metaFile.recs[id]
                /\ \A id \in DOMAIN metaFile.recs :
                      metaFile.recs[id].path \notin disk => id \notin files']_vars

\* The process has just started from a metadata file that holds a record
\* whose file is gone: the registry is empty.
C32_Witness ==
    /\ boots = 1 /\ Started
    /\ \A t \in Requests : op[t] = "none"
    /\ metaFile.st = "ok" /\ DOMAIN metaFile.recs # {}
    /\ \A id \in DOMAIN metaFile.recs : metaFile.recs[id].path \notin disk
    /\ files = {}

\* The time to live an upload is to get for the form value v: the number
\* of seconds sent, or the configured default.
ExpectedTtl(v) == IF v.err THEN config.defaultTTL ELSE v.n * Second

\* C33: the record an upload builds has expiresAt = uploadTime + ttl, ttl
\* being the seconds of the form's ttl, or the configured default when the
\* value is absent or is not a number; and its downloads are 0.
C33_ExpiryIsUploadTimePlusTtl ==
    [][\A t \in Requests :
          pc[t] = "u_stamp" /\ pc'[t] = "u_put" =>
             LET r == Head(todo'[t])
             IN  /\ r.expiresAt = r.uploadTime + ExpectedTtl(pre[t].ttl)
                 /\ r.downloads = 0]_vars

\* C34: a download is counted only for a record that is in the registry
\* with its file in the store, and a download that was counted serves the
\* file: the transfer finds it, whatever deletes, bulk-deletes, expiring
\* downloads and sweeper ticks run beside it.
C34_CountedDownloadServes ==
    [][\A t \in Requests :
          /\ Counts(t, rid[t]) =>
                rid[t] \in files /\ heap[rid[t]].path \in disk
          /\ op[t] = "download" /\ pc[t] = "d_serve" /\ pc'[t] = "done" =>
                resp'[t] = "Served"]_vars

\* Goroutine u is about to read the downloads of record id holding no
\* lock: the limit check of a download, or the sort and the encoding of
\* the records a search or a listing collected.
UnlockedRead(u, id) ==
    \/ op[u] = "download" /\ rid[u] = id /\ ENABLED DownloadCheck(u)
    \/ op[u] = "search" /\ id \in todo[u] /\ ENABLED SearchRespond(u)
    \/ op[u] = "list" /\ id \in todo[u] /\ ENABLED ListRespond(u)

\* C35: downloads is read and written under the lock only: in no state
\* can one goroutine write the downloads of a record, taking the lock for
\* it, while another is at a read of the same field with no lock held.
C35_DownloadsUnderLock ==
    \A t, u \in Requests :
        t # u /\ ENABLED DownloadIncrement(t) => ~UnlockedRead(u, rid[t])

\* Some goroutine is inside os.WriteFile of the metadata file.
Saving == \E t \in Threads : pc[t] \in {"saving", "s_close"}

\* C36: when a save returns, the metadata file holds the records of the
\* registry as they were during that save; and when the saves that
\* overlapped have all returned, the file holds what the last of them
\* captured, which is the registry if nothing changed it since.
C36_SaveLeavesSnapshot ==
    [][/\ \A t \in Threads :
             pc[t] = "s_close" /\ pc'[t] # "s_close" =>
                metaFile' = Written(Marshal(files, heap))
       /\ ~Saving' /\ metaFile'.st # "absent" =>
             metaFile' = Written([id \in DOMAIN lastSaved' |->
                                    MarshalInfo(lastSaved'[id])])]_vars

\* The registries that differ from this one in the password of one
\* protected record only.
Twins ==
    {[heap EXCEPT ![id].password = q] :
       id \in {x \in files : heap[x].password # <<>>},
       q \in Passwords \ {<<>>}}

\* The step of goroutine t is an answer that the same request would get
\* from the registry hp as well.
SameAnswerFrom(t, hp) ==
    CASE op'[t] = "info" ->
           resp'[t].status = 200 => resp'[t].body = EncodeInfo(hp[rid'[t]])
      [] op'[t] = "search" ->
           \E o \in SortedOrders(todo[t], hp, pre[t].sort) :
               resp'[t] = Encoded(o, hp)
      [] op'[t] = "list" ->
           \E o \in SortedOrders(todo[t], hp, "time") :
               resp'[t].files = Encoded(Page(o, Offset(pre[t].offset),
                                             Limit(pre[t].limit)), hp)
      [] op'[t] = "manage" ->
           \E o \in SortedOrders(todo[t], hp, "time") :
               resp'[t] = ManagePage(o, hp, pre'[t].accept, UploadStats, now)
      [] OTHER -> TRUE

\* C37: what info, list, search and the management page answer to a
\* caller who sent no password does not depend on the password of a
\* protected record: the same answer would come from every registry that
\* differs in that password only.
C37_PasswordNotDisclosed ==
    [][\A t \in Requests :
          pc[t] # "done" /\ pc'[t] = "done" =>
             \A hp \in Twins : SameAnswerFrom(t, hp)]_vars

====
